---------------------------- MODULE Spec2Model ----------------------------
(***************************************************************************)
(* Sarah's 1:1 Dashboard (src/Dashboard.py): a Streamlit script.  Every    *)
(* user interaction re-runs the script from top to bottom with the current *)
(* widget values; load_data() is memoized by @st.cache_data, so the status *)
(* column is computed once, at the first run, with the clock value of that *)
(* run.                                                                    *)
(*                                                                         *)
(* Timestamps are counted in ticks, TicksPerDay ticks to a day, so that a  *)
(* Timedelta has a time-of-day part that .days and .date() drop.           *)
(* The sentiment symbol U+00B1 is written "+-".                            *)
(***************************************************************************)
EXTENDS Integers, Sequences, FiniteSets, TLC

VARIABLES
    file,        \* rows of Raw_text.xlsx, in sheet order
    now,         \* the system clock, pd.Timestamp.today()
    cached,      \* st.cache_data holds the result of load_data()
    today,       \* load_data's local `today` of the run that filled the cache
    df,          \* the module-level df (the cached frame, status included)
    person_sel,  \* multiselect "Select person"
    feature_sel, \* multiselect "Select category"
    sent_sel,    \* multiselect "Select sentiment"
    df_filt,     \* the filtered frame
    kpi,         \* the six KPI cards
    insights,    \* build_insights(df_filt)
    up_next,     \* build_insights' local up_next: the rows behind the deadlines line
    today_q,     \* pd.Timestamp.today() as read at line 138 of the last run
    next7,       \* index labels of the rows in the "next 7 days" expander
    sel_topic,   \* selectbox "Select a topic to view details:"
    sel_row,     \* <<row>> shown by the Conversation Explorer, <<>> if none
    raised       \* the exception that ended the last run, "" if none

vars == <<file, now, cached, today, df, person_sel, feature_sel, sent_sel,
          df_filt, kpi, insights, up_next, today_q, next7, sel_topic,
          sel_row, raised>>

---------------------------------------------------------------------------
(* Bounds of the model *)

TicksPerDay == 2

MaxNow == 1

MaxRows == 2

MaxView == 3

MaxDue == 4

---------------------------------------------------------------------------
(* Values of the columns *)

(* pd.to_datetime(..., errors='coerce'): an unparsable or blank date *)
NaT == -1

(* what st.selectbox returns when it has no options *)
None == "None"

RISK == "Risk / Incident Management"

PROCESS == "Process / Quality Metrics"

PROJECTS == "Projects / Execution"

(* a category outside the friction list *)
CAREER == "Career / Growth"

FrictionCategories == {RISK, PROCESS, PROJECTS}

(* Python compares str by code points; the names used and their code points *)
codepoints ==
    [p \in {"Al", "Alf", "Bo"} |->
        CASE p = "Al" -> <<65, 108>>
          [] p = "Alf" -> <<65, 108, 102>>
          [] p = "Bo" -> <<66, 111>>]

(* a < b for two str *)
RECURSIVE seq_lt(_, _)
seq_lt(a, b) ==
    IF b = <<>> THEN FALSE
    ELSE IF a = <<>> THEN TRUE
    ELSE IF a[1] # b[1] THEN a[1] < b[1]
    ELSE seq_lt(Tail(a), Tail(b))

str_lt(p, q) == seq_lt(codepoints[p], codepoints[q])

---------------------------------------------------------------------------
(* load_data and the status column *)

(* Timedelta.days: whole days, rounded down *)
days(td) == td \div TicksPerDay

(* Timestamp.date(): the calendar day of a timestamp *)
date(ts) == ts \div TicksPerDay

status_lt_boundary(due_date, today_) ==
    IF due_date = NaT THEN "No Due"
    ELSE IF due_date < today_ THEN "Overdue"
    ELSE IF days(due_date - today_) < 7 THEN "Due Soon"
    ELSE "On Track"

status(due_date, today_) ==
    IF due_date = NaT THEN "No Due"
    ELSE IF due_date < today_ THEN "Overdue"
    ELSE IF days(due_date - today_) <= 7 THEN "Due Soon"
    ELSE "On Track"

load_data(rows, today_) ==
    [i \in 1..Len(rows) |->
        [idx |-> i,
         person |-> rows[i].person,
         feature_category |-> rows[i].feature_category,
         sentiment |-> rows[i].sentiment,
         topic |-> rows[i].topic,
         due_date |-> rows[i].due_date,
         status |-> status(rows[i].due_date, today_)]]

(* df = load_data() under @st.cache_data: the cached frame on a hit *)
Df == IF cached THEN df ELSE load_data(file, now)

(* today as load_data saw it when the frame in use was built *)
LoadToday == IF cached THEN today ELSE now

---------------------------------------------------------------------------
(* Frame helpers *)

column(d, c) == [i \in 1..Len(d) |-> d[i][c]]

(* Series.unique(): distinct values in order of first appearance *)
RECURSIVE unique(_)
unique(s) ==
    IF s = <<>> THEN <<>>
    ELSE LET r == unique(SubSeq(s, 1, Len(s) - 1))
             x == s[Len(s)]
         IN  IF \E i \in 1..Len(r) : r[i] = x THEN r ELSE Append(r, x)

values(s) == {s[i] : i \in 1..Len(s)}

(* (series == v).sum() and len() of a boolean selection *)
count_eq(d, c, v) == Len(SelectSeq(d, LAMBDA r : r[c] = v))

count_in(d, c, S) == Len(SelectSeq(d, LAMBDA r : r[c] \in S))

---------------------------------------------------------------------------
(* Sidebar filters *)

filter_any(d, ps, fs, ss) ==
    SelectSeq(d, LAMBDA r : r.person \in ps \/ r.feature_category \in fs
                              \/ r.sentiment \in ss)

filter(d, ps, fs, ss) ==
    SelectSeq(d, LAMBDA r : r.person \in ps /\ r.feature_category \in fs
                              /\ r.sentiment \in ss)

---------------------------------------------------------------------------
(* KPI cards *)

kpi_cards_neg_all(d) ==
    [total |-> Len(d),
     pos |-> count_eq(d, "sentiment", "+"),
     mix |-> count_eq(d, "sentiment", "+-"),
     neg |-> Len(d) - count_eq(d, "sentiment", "+"),
     due_soon |-> count_eq(d, "status", "Due Soon"),
     overdue |-> count_eq(d, "status", "Overdue")]

kpi_cards(d) ==
    [total |-> Len(d),
     pos |-> count_eq(d, "sentiment", "+"),
     mix |-> count_eq(d, "sentiment", "+-"),
     neg |-> count_eq(d, "sentiment", "-"),
     due_soon |-> count_eq(d, "status", "Due Soon"),
     overdue |-> count_eq(d, "status", "Overdue")]

---------------------------------------------------------------------------
(* Auto Insights.  The columns person and feature_category hold no blank  *)
(* cell here (the data model's non-null fields), so dropna() and the NaN   *)
(* that value_counts() skips remove nothing.                               *)

min(a, b) == IF a <= b THEN a ELSE b

(* Python 3 round(x) of the quotient n / d, d > 0: to nearest, ties to even *)
py_round_floor(n, d) == n \div d

py_round(n, d) ==
    LET q == n \div d
        r == n % d
    IN  IF 2 * r < d THEN q
        ELSE IF 2 * r > d THEN q + 1
        ELSE IF q % 2 = 0 THEN q ELSE q + 1

safe_pct(num, den) == IF den = 0 THEN 0 ELSE py_round(100 * num, den)

(* Series.value_counts(): the number of rows of each value present.  The   *)
(* order of the resulting Series among equal counts is left to the sort    *)
(* (kind='quicksort', not stable) and is not part of its contract.         *)
value_counts(s) ==
    [v \in values(s) |-> Cardinality({i \in 1..Len(s) : s[i] = v})]

(* value_counts().max() *)
vc_max(vc) ==
    IF DOMAIN vc = {} THEN 0
    ELSE CHOOSE m \in {vc[v] : v \in DOMAIN vc} : \A v \in DOMAIN vc : vc[v] <= m

(* value_counts().idxmax(): the label of a row holding the maximum; with   *)
(* several such labels, whichever the sort put first.  The set of labels   *)
(* the call can return.                                                    *)
idxmax_any(vc) == DOMAIN vc

idxmax(vc) == {v \in DOMAIN vc : vc[v] = vc_max(vc)}

(* sorted(list of str) *)
RECURSIVE sorted(_)
sorted(s) ==
    IF s = <<>> THEN <<>>
    ELSE LET r == sorted(Tail(s))
             x == Head(s)
             k == Cardinality({i \in 1..Len(r) : str_lt(r[i], x)})
         IN  SubSeq(r, 1, k) \o <<x>> \o SubSeq(r, k + 1, Len(r))

(* the persons of the per-person loop, in loop order *)
person_loop_unsorted(d) == unique(column(d, "person"))

person_loop(d) == sorted(unique(column(d, "person")))

(* a due_date sorts before b: ascending, NaT last *)
due_before(a, b) == a # NaT /\ (b = NaT \/ a < b)

remove_at(s, i) == SubSeq(s, 1, i - 1) \o SubSeq(s, i + 1, Len(s))

(* DataFrame.sort_values('due_date'): kind='quicksort' keeps no order      *)
(* among rows of equal due_date.  The set of frames the call can return.   *)
not_sorted(d) == {d}

RECURSIVE sort_values(_)
sort_values(d) ==
    IF d = <<>> THEN {<<>>}
    ELSE LET firsts == {i \in 1..Len(d) :
                          \A j \in 1..Len(d) :
                              ~due_before(d[j].due_date, d[i].due_date)}
         IN  UNION {{<<d[i]>> \o t : t \in sort_values(remove_at(d, i))} :
                      i \in firsts}

head(d, n) == SubSeq(d, 1, min(n, Len(d)))

(* the sub-frames of build_insights *)
sub(d, p) == SelectSeq(d, LAMBDA r : r.person = p)

due_rows(d) == SelectSeq(d, LAMBDA r : r.status \in {"Due Soon", "Overdue"})

wins(d) == SelectSeq(d, LAMBDA r : r.sentiment = "+")

frictions(d) ==
    SelectSeq(d, LAMBDA r : r.sentiment # "+"
                              /\ r.feature_category \in FrictionCategories)

top_cats(d) == idxmax(value_counts(column(d, "feature_category")))

(* What pandas leaves open in one call of build_insights(d): the label     *)
(* each idxmax() returns and the frame sort_values() returns.              *)
Choices(d) ==
    [top_cat : IF d = <<>> THEN {"N/A"} ELSE top_cats(d),
     p_top_cat : {f \in [values(column(d, "person")) ->
                            values(column(d, "feature_category"))] :
                     \A p \in DOMAIN f : f[p] \in top_cats(sub(d, p))},
     up_next : {head(s, 3) : s \in sort_values(due_rows(d))},
     top_win_cat : IF wins(d) = <<>> THEN {"N/A"} ELSE top_cats(wins(d)),
     top_frict_cat : IF frictions(d) = <<>> THEN {"N/A"}
                     ELSE top_cats(frictions(d))]

(* The insight lines, by the rule that writes them *)
NoDataLine == [rule |-> "No data under current filters."]

focus_line(d, ch) ==
    [rule |-> "Focus",
     cat |-> ch.top_cat,
     pct |-> safe_pct(vc_max(value_counts(column(d, "feature_category"))),
                      Len(d))]

person_line(d, p, ch) ==
    LET s == sub(d, p)
    IN  [rule |-> "Person",
         person |-> p,
         cat |-> ch.p_top_cat[p],
         pct |-> safe_pct(vc_max(value_counts(column(s, "feature_category"))),
                          Len(s)),
         pos |-> count_eq(s, "sentiment", "+"),
         mix |-> count_eq(s, "sentiment", "+-"),
         neg |-> count_eq(s, "sentiment", "-"),
         pos_rate |-> safe_pct(count_eq(s, "sentiment", "+"), Len(s)),
         due |-> count_in(s, "status", {"Due Soon", "Overdue"})]

person_lines(d, ch) ==
    LET ps == person_loop(d)
    IN  [i \in 1..Len(ps) |-> person_line(d, ps[i], ch)]

label(r) == [date |-> date(r.due_date), person |-> r.person, topic |-> r.topic]

urgency_lines(d, ch) ==
    LET due == due_rows(d)
    IN  IF due = <<>> THEN <<>>
        ELSE <<[rule |-> "Urgency",
                n |-> Len(due),
                overdue |-> count_eq(due, "status", "Overdue")],
               [rule |-> "Next deadlines",
                labels |-> [i \in 1..Len(ch.up_next) |-> label(ch.up_next[i])]]>>

wins_lines(d, ch) ==
    IF wins(d) = <<>> THEN <<>>
    ELSE <<[rule |-> "Wins", cat |-> ch.top_win_cat, n |-> min(3, Len(wins(d)))]>>

friction_lines(d, ch) ==
    IF frictions(d) = <<>> THEN <<>>
    ELSE <<[rule |-> "Friction", cat |-> ch.top_frict_cat]>>

build_insights_no_guard(d, ch) ==
    IF d = <<>> THEN <<>>
    ELSE <<focus_line(d, ch)>> \o person_lines(d, ch) \o urgency_lines(d, ch)
            \o wins_lines(d, ch) \o friction_lines(d, ch)

build_insights_friction_first(d, ch) ==
    IF d = <<>> THEN <<NoDataLine>>
    ELSE <<focus_line(d, ch)>> \o person_lines(d, ch) \o urgency_lines(d, ch)
            \o friction_lines(d, ch) \o wins_lines(d, ch)

build_insights(d, ch) ==
    IF d = <<>> THEN <<NoDataLine>>
    ELSE <<focus_line(d, ch)>> \o person_lines(d, ch) \o urgency_lines(d, ch)
            \o wins_lines(d, ch) \o friction_lines(d, ch)

---------------------------------------------------------------------------
(* Expander "Upcoming deadlines (next 7 days)": the rows selected *)

next7_rows(d, today_) ==
    {d[i].idx : i \in {j \in 1..Len(d) :
                         /\ d[j].due_date # NaT
                         /\ days(d[j].due_date - today_) >= 0
                         /\ days(d[j].due_date - today_) <= 7}}

---------------------------------------------------------------------------
(* Conversation Explorer *)

(* st.selectbox(label, options): one of the options, None when there are   *)
(* none; the first option until the user picks another.                    *)
selectbox_values(options) == IF options = <<>> THEN {None} ELSE values(options)

selectbox_default(options) == IF options = <<>> THEN None ELSE options[1]

(* df_filt[df_filt['topic'] == sel_topic] *)
matching(d, topic) == SelectSeq(d, LAMBDA r : r.topic = topic)

iloc_last(m) == IF m = <<>> THEN <<>> ELSE <<m[Len(m)]>>

(* .iloc[0]: the first row, IndexError on an empty frame *)
iloc0(m) == IF m = <<>> THEN <<>> ELSE <<m[1]>>

iloc0_raises(m) == IF m = <<>> THEN "IndexError" ELSE ""

---------------------------------------------------------------------------
(* One run of the script, lines 36-209, with the widget values ps, fs, ss  *)
(* and t.  The run ends at line 206 when .iloc[0] raises; everything above *)
(* has been computed by then.                                              *)

Script(ps, fs, ss, t) ==
    LET d == filter(Df, ps, fs, ss)
        m == matching(d, t)
    IN  /\ cached' = TRUE
        /\ today' = LoadToday
        /\ df' = Df
        /\ person_sel' = ps
        /\ feature_sel' = fs
        /\ sent_sel' = ss
        /\ df_filt' = d
        /\ kpi' = kpi_cards(d)
        /\ \E ch \in Choices(d) :
              /\ insights' = build_insights(d, ch)
              /\ up_next' = ch.up_next
        /\ today_q' = now
        /\ next7' = next7_rows(d, now)
        /\ sel_topic' = t
        /\ sel_row' = iloc0(m)
        /\ raised' = iloc0_raises(m)
        /\ UNCHANGED <<file, now>>

(* the options of the three multiselects *)
person_options == values(column(Df, "person"))

feature_options == values(column(Df, "feature_category"))

sent_options == values(column(Df, "sentiment"))

(* the options of the topic selectbox under a filter selection *)
topic_options(ps, fs, ss) == unique(column(filter(Df, ps, fs, ss), "topic"))

(* The first run: the cache is empty, load_data() runs and reads the clock; *)
(* every widget holds its default.                                         *)
FirstRun ==
    /\ ~cached
    /\ Script(person_options, feature_options, sent_options,
              selectbox_default(topic_options(person_options, feature_options,
                                              sent_options)))

(* The viewer changes one widget: the script runs again, on the cached frame *)
ChangePersonSel ==
    /\ cached
    /\ \E ps \in SUBSET person_options :
          /\ ps # person_sel
          /\ \E t \in selectbox_values(topic_options(ps, feature_sel, sent_sel)) :
                Script(ps, feature_sel, sent_sel, t)

ChangeFeatureSel ==
    /\ cached
    /\ \E fs \in SUBSET feature_options :
          /\ fs # feature_sel
          /\ \E t \in selectbox_values(topic_options(person_sel, fs, sent_sel)) :
                Script(person_sel, fs, sent_sel, t)

ChangeSentSel ==
    /\ cached
    /\ \E ss \in SUBSET sent_options :
          /\ ss # sent_sel
          /\ \E t \in selectbox_values(topic_options(person_sel, feature_sel, ss)) :
                Script(person_sel, feature_sel, ss, t)

SelectTopic ==
    /\ cached
    /\ \E t \in selectbox_values(topic_options(person_sel, feature_sel, sent_sel)) :
          /\ t # sel_topic
          /\ Script(person_sel, feature_sel, sent_sel, t)

(* Time passes between runs *)
Tick ==
    /\ now < MaxNow
    /\ now' = now + 1
    /\ UNCHANGED <<file, cached, today, df, person_sel, feature_sel, sent_sel,
                   df_filt, kpi, insights, up_next, today_q, next7, sel_topic,
                   sel_row, raised>>

Next ==
    \/ FirstRun
    \/ ChangePersonSel
    \/ ChangeFeatureSel
    \/ ChangeSentSel
    \/ SelectTopic
    \/ Tick

---------------------------------------------------------------------------
(* The sheets considered *)

Row(p, c, s, t, d) ==
    [person |-> p, feature_category |-> c, sentiment |-> s, topic |-> t,
     due_date |-> d]

FilesOver(R, n) == UNION {[1..k -> R] : k \in 0..n}

(* due dates around every boundary of the status rule for a clock in 0..MaxNow *)
DueDates ==
    {NaT} \cup (0..MaxNow) \cup ((7 * TicksPerDay)..(8 * TicksPerDay + MaxNow))

StatusRows ==
    {Row("Al", CAREER, "+", "t1", d) : d \in DueDates}
        \cup {Row("Al", CAREER, "+", "t2", NaT)}

(* The server has started, at time t0, and nobody has opened the page yet *)
InitWith(F, t0) ==
    /\ file \in F
    /\ now = t0
    /\ cached = FALSE
    /\ today = 0
    /\ df = <<>>
    /\ person_sel = {}
    /\ feature_sel = {}
    /\ sent_sel = {}
    /\ df_filt = <<>>
    /\ kpi = kpi_cards(<<>>)
    /\ insights = <<>>
    /\ up_next = <<>>
    /\ today_q = 0
    /\ next7 = {}
    /\ sel_topic = None
    /\ sel_row = <<>>
    /\ raised = ""

InitStatus == InitWith(FilesOver(StatusRows, MaxRows), 0)

SpecStatus == InitStatus /\ [][Next]_vars

(* sheets that vary what the three filters read, and the topics *)
FilterRows ==
    {Row(p, c, s, "t1", NaT) : p \in {"Al", "Bo"}, c \in {RISK, CAREER},
                               s \in {"+", "-"}}

TopicRows ==
    {Row(p, CAREER, "+", t, NaT) : p \in {"Al", "Bo"}, t \in {"t1", "t2"}}

Init ==
    InitWith(FilesOver(FilterRows, MaxRows) \cup FilesOver(TopicRows, MaxRows),
             MaxNow - 1)

Spec == Init /\ [][Next]_vars

(* sheets that vary what the KPI cards count; "?" is a sentiment cell that *)
(* holds none of the three symbols                                         *)
KpiRows ==
    {Row("Al", CAREER, s, "t1", d) : s \in {"+", "+-", "-", "?"}, d \in {NaT, MaxNow - 1}}
        \cup {Row("Al", CAREER, "+", "t2", NaT)}

InitKpi == InitWith(FilesOver(KpiRows, MaxRows), MaxNow - 1)

SpecKpi == InitKpi /\ [][Next]_vars

(* build_insights as a function of the frame: the page is opened once, at  *)
(* any time, with every filter at its default, so df_filt is the sheet.    *)
NextOpen ==
    \/ FirstRun
    \/ Tick

CatRows ==
    {Row(p, c, s, "t1", NaT) : p \in {"Al", "Bo"}, c \in {RISK, PROCESS},
                               s \in {"+", "-"}}

RuleRows ==
    {Row("Al", c, s, "t1", d) : c \in {RISK, CAREER}, s \in {"+", "-"},
                                d \in {NaT, MaxNow - 1}}

PersonRows ==
    {Row(p, CAREER, sd[1], "t1", sd[2]) :
        p \in {"Al", "Alf", "Bo"},
        sd \in {<<"+", NaT>>, <<"+-", MaxNow - 1>>, <<"-", MaxNow - 1>>}}

InitInsights ==
    InitWith(FilesOver(CatRows, MaxView) \cup FilesOver(RuleRows, MaxView),
             MaxNow - 1)

SpecInsights == InitInsights /\ [][NextOpen]_vars

InitPersons == InitWith(FilesOver(PersonRows, MaxView), MaxNow - 1)

SpecPersons == InitPersons /\ [][NextOpen]_vars

(* sheets with several deadlines, some at the same instant, some on the    *)
(* same day                                                                *)
DeadlineRows ==
    {Row("Al", CAREER, "+", "t1", d) :
        d \in {NaT, 0, 1, 8 * TicksPerDay + MaxNow}}

InitDue == InitWith(FilesOver(DeadlineRows, MaxDue), 0)

SpecDue == InitDue /\ [][NextOpen]_vars

---------------------------------------------------------------------------
(* Properties *)

(* the positions of d whose row satisfies P *)
Where(d, P(_)) == {i \in 1..Len(d) : P(d[i])}

(* the four-branch rule, by the distance from the evaluation instant t to  *)
(* the due date: whole days 0..7 ahead are the instants t .. t + 8 days,   *)
(* the last one excluded                                                   *)
RuleStatus(due, t) ==
    CASE due = NaT -> "No Due"
      [] due # NaT /\ due < t -> "Overdue"
      [] due # NaT /\ t <= due /\ due < t + 8 * TicksPerDay -> "Due Soon"
      [] OTHER -> "On Track"

(* C1: the status of every record is No Due when due_date is missing,      *)
(* Overdue when due_date is before the evaluation instant, Due Soon when   *)
(* it is 0 to 7 whole days ahead, On Track otherwise; records with the     *)
(* same due_date evaluated at the same instant have the same status.       *)
C1_StatusRule ==
    cached =>
        /\ \A i \in 1..Len(df) :
              df[i].status = RuleStatus(df[i].due_date, today)
        /\ \A i, j \in 1..Len(df) :
              df[i].due_date = df[j].due_date => df[i].status = df[j].status

(* a frame with a deadline 7 days and a fraction ahead (Due Soon) and one  *)
(* 8 days or more ahead (On Track)                                         *)
C1_Witness ==
    /\ cached
    /\ \E i, j \in 1..Len(df) :
          /\ df[i].status = "Due Soon"
          /\ df[i].due_date - today > 7 * TicksPerDay
          /\ df[j].status = "On Track"

(* C2: the status that the KPI cards and the urgency rule use for a record *)
(* is the four-branch rule evaluated at the instant of the run that        *)
(* computes them, not at the instant the cached frame was loaded.          *)
C2_StatusAtQueryTime ==
    cached =>
        /\ kpi.due_soon =
              Cardinality(Where(df_filt,
                  LAMBDA r : RuleStatus(r.due_date, today_q) = "Due Soon"))
        /\ kpi.overdue =
              Cardinality(Where(df_filt,
                  LAMBDA r : RuleStatus(r.due_date, today_q) = "Overdue"))
        /\ \A i \in 1..Len(df_filt) :
              df_filt[i].status = RuleStatus(df_filt[i].due_date, today_q)

(* the positions of df that pass the three selections *)
Kept ==
    {i \in 1..Len(df) : /\ df[i].person \in person_sel
                        /\ df[i].feature_category \in feature_sel
                        /\ df[i].sentiment \in sent_sel}

(* the k-th smallest member of a set of positions *)
Nth(S, k) == CHOOSE i \in S : Cardinality({j \in S : j <= i}) = k

(* C3: the filtered view holds exactly the records whose person, category  *)
(* and sentiment are all in the selected sets, in dataset order; with the  *)
(* three selections equal to the distinct values of the dataset the view   *)
(* is the dataset; filtering leaves the dataset as it was loaded.          *)
C3_FilterView ==
    cached =>
        /\ Len(df_filt) = Cardinality(Kept)
        /\ \A k \in 1..Len(df_filt) : df_filt[k] = df[Nth(Kept, k)]
        /\ (/\ person_sel = values(column(df, "person"))
            /\ feature_sel = values(column(df, "feature_category"))
            /\ sent_sel = values(column(df, "sentiment"))) => df_filt = df
        /\ df = load_data(file, today)

(* a view that drops the first record, which fails the sentiment test     *)
(* alone, and keeps the second                                             *)
C3_Witness ==
    /\ cached
    /\ \E i, j \in 1..Len(df) :
          /\ i < j
          /\ i \notin Kept /\ j \in Kept
          /\ df[i].person \in person_sel
          /\ df[i].feature_category \in feature_sel
          /\ df_filt = <<df[j]>>

(* C4: total is the number of records of the view; when every sentiment of *)
(* the view is one of the three symbols, pos + mix + neg = total; due_soon *)
(* and overdue count the records of status Due Soon and Overdue; the empty *)
(* view gives the all-zero summary.                                        *)
C4_KpiSummary ==
    cached =>
        /\ kpi.total = Len(df_filt)
        /\ (\A i \in 1..Len(df_filt) : df_filt[i].sentiment \in {"+", "+-", "-"})
              => kpi.pos + kpi.mix + kpi.neg = kpi.total
        /\ kpi.due_soon =
              Cardinality(Where(df_filt, LAMBDA r : r.status = "Due Soon"))
        /\ kpi.overdue =
              Cardinality(Where(df_filt, LAMBDA r : r.status = "Overdue"))
        /\ df_filt = <<>> =>
              kpi = [total |-> 0, pos |-> 0, mix |-> 0, neg |-> 0,
                     due_soon |-> 0, overdue |-> 0]

(* a view of the three symbols only, with a mixed and a negative record    *)
(* and an overdue one                                                      *)
C4_Witness ==
    /\ cached
    /\ \A i \in 1..Len(df_filt) : df_filt[i].sentiment \in {"+", "+-", "-"}
    /\ kpi.total = 2
    /\ kpi.mix = 1
    /\ kpi.neg = 1
    /\ kpi.overdue >= 1

(* C5: for the empty view the insights are the single line "No data under  *)
(* current filters."; for a non-empty view that line is never written.     *)
C5_EmptyGuard ==
    cached =>
        /\ df_filt = <<>> => insights = <<NoDataLine>>
        /\ df_filt # <<>> =>
              /\ insights # <<>>
              /\ \A i \in 1..Len(insights) : insights[i].rule # NoDataLine.rule

(* a loaded sheet with records, all of them filtered out *)
C5_Witness ==
    /\ cached
    /\ df # <<>>
    /\ df_filt = <<>>
    /\ insights = <<NoDataLine>>

(* C7: the Conversation Explorer shows the first record, in view order,    *)
(* whose topic is the selected one; when no record of the view has that    *)
(* topic the lookup fails (.iloc[0] raises IndexError) and shows no record.*)
C7_Lookup ==
    cached =>
        LET hits == Where(df_filt, LAMBDA r : r.topic = sel_topic)
        IN  IF hits = {}
            THEN sel_row = <<>> /\ raised = "IndexError"
            ELSE /\ raised = ""
                 /\ sel_row = <<df_filt[Nth(hits, 1)]>>
                 /\ \A i \in hits : sel_row[1].idx <= df_filt[i].idx

(* two records of the view share the selected topic and the first is shown *)
C7_Witness ==
    /\ cached
    /\ \E i, j \in 1..Len(df_filt) :
          /\ i < j
          /\ df_filt[i].topic = sel_topic
          /\ df_filt[j].topic = sel_topic
          /\ df_filt[i].person # df_filt[j].person
          /\ sel_row = <<df_filt[i]>>

(* the lines of insights written by one rule *)
LinesOf(rule) == SelectSeq(insights, LAMBDA l : l.rule = rule)

(* the number of records of the view of person p that satisfy P *)
CountFor(p, P(_)) ==
    Cardinality({i \in 1..Len(df_filt) : df_filt[i].person = p /\ P(df_filt[i])})

(* C6: for a non-empty view the per-person lines come in strictly          *)
(* ascending order of person (str order), one line for each distinct       *)
(* person of the view whatever the order of the records, and each line     *)
(* reports the +, +- and - counts and the number of Due Soon or Overdue    *)
(* records among that person's records only.                               *)
C6_PersonLines ==
    (cached /\ df_filt # <<>>) =>
        LET pl == LinesOf("Person")
        IN  /\ \A i \in 1..(Len(pl) - 1) : str_lt(pl[i].person, pl[i + 1].person)
            /\ {pl[i].person : i \in 1..Len(pl)}
                  = {df_filt[j].person : j \in 1..Len(df_filt)}
            /\ \A i \in 1..Len(pl) :
                  /\ pl[i].pos = CountFor(pl[i].person, LAMBDA r : r.sentiment = "+")
                  /\ pl[i].mix = CountFor(pl[i].person, LAMBDA r : r.sentiment = "+-")
                  /\ pl[i].neg = CountFor(pl[i].person, LAMBDA r : r.sentiment = "-")
                  /\ pl[i].due = CountFor(pl[i].person,
                                    LAMBDA r : r.status \in {"Due Soon", "Overdue"})

(* three persons met in descending order in the view, one of them with an  *)
(* urgent record, another with none                                        *)
C6_Witness ==
    /\ cached
    /\ Len(df_filt) = 3
    /\ str_lt(df_filt[3].person, df_filt[2].person)
    /\ str_lt(df_filt[2].person, df_filt[1].person)
    /\ Len(LinesOf("Person")) = 3
    /\ LinesOf("Person")[1].due = 1
    /\ LinesOf("Person")[3].due = 0

(* the place of a rule in the fixed order *)
RuleRank(rule) ==
    CASE rule = "Focus" -> 1
      [] rule = "Person" -> 2
      [] rule = "Urgency" -> 3
      [] rule = "Next deadlines" -> 4
      [] rule = "Wins" -> 5
      [] rule = "Friction" -> 6
      [] OTHER -> 0

(* C8: for a non-empty view the lines come in the fixed rule order: one    *)
(* focus line first, then the per-person lines, then no urgency line or    *)
(* the two of them, then at most one wins line, then at most one friction  *)
(* line.                                                                   *)
C8_RuleOrder ==
    (cached /\ df_filt # <<>>) =>
        /\ insights[1].rule = "Focus"
        /\ Len(LinesOf("Focus")) = 1
        /\ \A i \in 1..Len(insights) : RuleRank(insights[i].rule) > 0
        /\ \A i \in 1..(Len(insights) - 1) :
              \/ RuleRank(insights[i].rule) < RuleRank(insights[i + 1].rule)
              \/ insights[i].rule = "Person" /\ insights[i + 1].rule = "Person"
        /\ Len(LinesOf("Urgency")) = Len(LinesOf("Next deadlines"))
        /\ Len(LinesOf("Urgency")) \in {0, 1}
        /\ Len(LinesOf("Wins")) \in {0, 1}
        /\ Len(LinesOf("Friction")) \in {0, 1}

(* a view on which every rule writes *)
C8_Witness ==
    /\ cached
    /\ Len(LinesOf("Person")) >= 1
    /\ Len(LinesOf("Urgency")) = 1
    /\ Len(LinesOf("Wins")) = 1
    /\ Len(LinesOf("Friction")) = 1
    /\ Len(insights) >= 6

(* the positions of the view whose record is Due Soon or Overdue *)
Urgent == Where(df_filt, LAMBDA r : r.status \in {"Due Soon", "Overdue"})

Listed == {up_next[i].idx : i \in 1..Len(up_next)}

CatCount(d, c) == Cardinality(Where(d, LAMBDA r : r.feature_category = c))

FirstOf(d, c) == Nth(Where(d, LAMBDA r : r.feature_category = c), 1)

(* c has the highest record count in d *)
IsDominant(d, c) ==
    /\ CatCount(d, c) > 0
    /\ \A i \in 1..Len(d) : CatCount(d, d[i].feature_category) <= CatCount(d, c)

(* c is, of the categories with the highest count, the one met first *)
IsFirstDominant(d, c) ==
    /\ IsDominant(d, c)
    /\ \A i \in 1..Len(d) :
          IsDominant(d, d[i].feature_category) => FirstOf(d, c) <= i

(* pct is an integer nearest to 100 * num / den *)
IsRounded(pct, num, den) ==
    /\ 2 * (100 * num - pct * den) <= den
    /\ 2 * (pct * den - 100 * num) <= den

ViewOf(p) == SelectSeq(df_filt, LAMBDA r : r.person = p)

ViewWins == SelectSeq(df_filt, LAMBDA r : r.sentiment = "+")

ViewFrictions ==
    SelectSeq(df_filt, LAMBDA r : /\ r.sentiment # "+"
                                  /\ r.feature_category \in {RISK, PROCESS, PROJECTS})

(* the category named by every line of the last run satisfies Dom in the   *)
(* view or sub-view the line is about                                      *)
DominantLines(Dom(_, _)) ==
    /\ \A i \in 1..Len(LinesOf("Focus")) : Dom(df_filt, LinesOf("Focus")[i].cat)
    /\ \A i \in 1..Len(LinesOf("Person")) :
          Dom(ViewOf(LinesOf("Person")[i].person), LinesOf("Person")[i].cat)
    /\ \A i \in 1..Len(LinesOf("Wins")) : Dom(ViewWins, LinesOf("Wins")[i].cat)
    /\ \A i \in 1..Len(LinesOf("Friction")) :
          Dom(ViewFrictions, LinesOf("Friction")[i].cat)

===========================================================================
